---- MODULE Spec2Model ----
(***************************************************************************)
(* The assets-job compiler of dagster/core/asset_defs/assets_job.py:       *)
(* build_assets_job and the functions it calls (partition unification,    *)
(* key resolution, node graph assembly, cycle detection, cycle resolution *)
(* by colouring and subsetting, resource conformance).                    *)
(*                                                                         *)
(* Python values are represented as follows.                              *)
(*   AssetKey(path)            [path |-> <<"p", "a">>]                      *)
(*   key.to_user_string()      the str "p/a", as the token sequence        *)
(*                             <<"p", "/", "a">>                            *)
(*   a node name, an alias     a string; f"{name}_{n}" is built with \o    *)
(*   a dict                    a function on its key set                   *)
(*   None                      NONE                                        *)
(*   NodeInvocation(n, alias)  [tag |-> "NodeInvocation", name, alias]     *)
(*   a str used as a deps key  [tag |-> "str", val]                        *)
(***************************************************************************)
EXTENDS Integers, Sequences, FiniteSets, TLC

VARIABLES
    pc,                          \* position inside build_assets_job
    supplied,                    \* the assets argument as passed by the caller
    assets,                      \* the local variable assets
    source_assets,               \* conformed_source_assets
    resource_defs,               \* the resource_defs argument
    partitions_arg,              \* the partitions_def argument
    partitions_def,              \* the local partitions_def after line 100
    built,                       \* what build_node_deps returned last
    cyclic,                      \* what _has_cycles returned
    colors,                      \* the colouring of the last resolution pass
    result,                      \* what the call returned or raised
    n_resolve,                   \* calls of _attempt_resolve_cycles so far
    n_build,                     \* calls of build_node_deps so far
    stack,                       \* the frames of the _dfs calls in progress
    pending_roots                \* the root names _dfs is still to be called on

vars == <<pc, supplied, assets, source_assets, resource_defs, partitions_arg,
          partitions_def, built, cyclic, colors, result, n_resolve, n_build,
          stack, pending_roots>>

-----------------------------------------------------------------------------
(* Bounds of the checked inputs.                                           *)

MaxDefs == 3
MaxEdges == 2

-----------------------------------------------------------------------------
(* Python helpers.                                                         *)

NONE == "None"

Range(f) == {f[x] : x \in DOMAIN f}

Restrict(f, S) == [x \in S |-> f[x]]

Put(f, k, v) == [x \in DOMAIN f \cup {k} |-> IF x = k THEN v ELSE f[x]]

EmptyDict == <<>>

Max(S) == CHOOSE x \in S : \A y \in S : y <= x

Min(S) == CHOOSE x \in S : \A y \in S : x <= y

Last(s) == s[Len(s)]

\* Code point order of the one-letter path segments the inputs use.
Alphabet == <<"a", "b", "c", "d", "n", "p", "s">>

SegRank(s) == CHOOSE i \in 1..Len(Alphabet) : Alphabet[i] = s

\* list < list of str, as Python compares lists
RECURSIVE PathLess(_, _)
PathLess(p, q) ==
    IF p = <<>> THEN q # <<>>
    ELSE IF q = <<>> THEN FALSE
    ELSE IF Head(p) = Head(q) THEN PathLess(Tail(p), Tail(q))
    ELSE SegRank(Head(p)) < SegRank(Head(q))

\* AssetKey < AssetKey: the named tuples compare by their path
KeyLess(k1, k2) == PathLess(k1.path, k2.path)

\* sorted(keys)
RECURSIVE SortedKeys(_)
SortedKeys(S) ==
    IF S = {} THEN <<>>
    ELSE LET m == CHOOSE k \in S : \A o \in S : o = k \/ KeyLess(k, o)
         IN <<m>> \o SortedKeys(S \ {m})

\* list < list of AssetKey
RECURSIVE KeyListLess(_, _)
KeyListLess(s, t) ==
    IF s = <<>> THEN t # <<>>
    ELSE IF t = <<>> THEN FALSE
    ELSE IF Head(s) = Head(t) THEN KeyListLess(Tail(s), Tail(t))
    ELSE KeyLess(Head(s), Head(t))

AssetKey(p) == [path |-> p]

\* "/".join(key.path), the str as a sequence of tokens
RECURSIVE JoinPath(_)
JoinPath(p) ==
    IF Len(p) = 0 THEN <<>>
    ELSE IF Len(p) = 1 THEN p
    ELSE <<Head(p), "/">> \o JoinPath(Tail(p))

ToUserString(key) == JoinPath(key.path)

\* s.split("/"): cur is the segment read so far
RECURSIVE SplitPath(_, _)
SplitPath(s, cur) ==
    IF s = <<>> THEN <<cur>>
    ELSE IF Head(s) = "/" THEN <<cur>> \o SplitPath(Tail(s), "")
    ELSE SplitPath(Tail(s), cur \o Head(s))

FromUserString(s) == AssetKey(SplitPath(s, ""))

-----------------------------------------------------------------------------
(* AssetsDefinition and SourceAsset, as far as the compiler reads them.    *)
(* A definition is a record                                                *)
(*   id                        the object's identity                       *)
(*   node_name                 node_def.name                                *)
(*   node_keys_by_input_name   every input of the node                     *)
(*   node_keys_by_output_name  every output of the node                    *)
(*   asset_deps                output key -> the keys it is computed from  *)
(*   selected                  the output keys this definition produces    *)
(*   group_names_by_key, can_subset, partitions_def, resource_defs,        *)
(*   requirements                                                          *)

Keys(ad) == ad.selected

KeysByOutputName(ad) ==
    Restrict(ad.node_keys_by_output_name,
             {n \in DOMAIN ad.node_keys_by_output_name :
                 ad.node_keys_by_output_name[n] \in ad.selected})

KeysByInputName(ad) ==
    LET upstream_keys == UNION {ad.asset_deps[k] : k \in ad.selected}
    IN Restrict(ad.node_keys_by_input_name,
                {n \in DOMAIN ad.node_keys_by_input_name :
                    ad.node_keys_by_input_name[n] \in upstream_keys})

\* assets_def.subset_for(selected_asset_keys); tag makes the new object's identity
SubsetFor(ad, selected_asset_keys, tag) ==
    [ad EXCEPT !.id = ad.id \o <<tag>>,
               !.selected = selected_asset_keys \cap ad.selected]

-----------------------------------------------------------------------------
(* resolve_assets_def_deps                                                 *)

DefinitionError(input_key, asset_key) ==
    [type |-> "DagsterInvalidDefinitionError", what |-> "unresolved input",
     input |-> input_key, asset |-> asset_key]

Unresolved == [unresolved |-> TRUE]

\* The (group, name) pairs the two loops of lines 191-197 write.
TableEntries(assets_defs, sources) ==
    UNION {{<<assets_defs[i].group_names_by_key[k], Last(k.path)>> :
               k \in Keys(assets_defs[i])} : i \in 1..Len(assets_defs)}
    \cup {<<sources[i].group_name, Last(sources[i].key.path)>> : i \in 1..Len(sources)}

\* The keys the last write of entry e may have stored: later writes overwrite
\* earlier ones, the sources are written after the definitions, and the keys of
\* one definition are written in the iteration order of a set.
TableCandidates(assets_defs, sources, e) ==
    LET srcs == {i \in 1..Len(sources) :
                    <<sources[i].group_name, Last(sources[i].key.path)>> = e}
        hit(i) == {k \in Keys(assets_defs[i]) :
                    <<assets_defs[i].group_names_by_key[k], Last(k.path)>> = e}
        defs == {i \in 1..Len(assets_defs) : hit(i) # {}}
    IN IF srcs # {} THEN {sources[Max(srcs)].key} ELSE hit(Max(defs))

\* asset_keys_by_group_and_name after lines 190-197, one per iteration order
LookupTables(assets_defs, sources) ==
    LET E == TableEntries(assets_defs, sources)
        cand(e) == TableCandidates(assets_defs, sources, e)
        open == {e \in E : Cardinality(cand(e)) > 1}
    IN {[e \in E |-> IF e \in open THEN c[e] ELSE CHOOSE k \in cand(e) : TRUE] :
           c \in {f \in [open -> UNION {cand(e) : e \in open}] :
                      \A e \in open : f[e] \in cand(e)}}

\* lines 203-207
GroupOf(ad) ==
    IF Cardinality(DOMAIN ad.group_names_by_key) = 1
    THEN CHOOSE g \in Range(ad.group_names_by_key) : TRUE
    ELSE NONE

\* lines 209-217 for one input
ResolveInput(table, group, upstream_asset_key) ==
    LET asset_keys == Range(table)
        group_and_upstream_name == <<group, Last(upstream_asset_key.path)>>
    IN IF upstream_asset_key \in asset_keys THEN upstream_asset_key
       ELSE IF group # NONE /\ group_and_upstream_name \in DOMAIN table
            THEN table[group_and_upstream_name]
            ELSE Unresolved

\* dep_keys_by_input_name of one definition, Unresolved where line 219 raises
DepKeysByInputName(table, ad) ==
    LET ins == KeysByInputName(ad)
    IN [n \in DOMAIN ins |-> ResolveInput(table, GroupOf(ad), ins[n])]

\* The outcomes of resolve_assets_def_deps: a result per object identity, or the
\* error of the first definition that has an input resolving by neither rule.
ResolveAssetsDefDeps(assets_defs, sources) ==
    UNION {
        LET dk(i) == DepKeysByInputName(table, assets_defs[i])
            bad == {i \in 1..Len(assets_defs) : Unresolved \in Range(dk(i))}
        IN IF bad = {}
           THEN {[ok |-> TRUE, table |-> table,
                  dep_keys |-> [id \in {assets_defs[i].id : i \in 1..Len(assets_defs)} |->
                      dk(CHOOSE i \in 1..Len(assets_defs) : assets_defs[i].id = id)]]}
           ELSE LET ad == assets_defs[Min(bad)]
                    ins == KeysByInputName(ad)
                IN {[ok |-> FALSE, table |-> table,
                     error |-> DefinitionError(ins[n], k)] :
                       n \in {m \in DOMAIN ins : dk(Min(bad))[m] = Unresolved},
                       k \in Keys(ad)}
        : table \in LookupTables(assets_defs, sources)}

-----------------------------------------------------------------------------
(* build_node_deps                                                         *)

\* sorted(assets_defs, key=lambda ad: sorted(ad.keys)), a stable sort
RECURSIVE SortedDefs(_)
SortedDefs(s) ==
    IF s = <<>> THEN <<>>
    ELSE LET key(i) == SortedKeys(Keys(s[i]))
             m == Min({i \in 1..Len(s) :
                         \A j \in 1..Len(s) : ~KeyListLess(key(j), key(i))})
         IN <<s[m]>> \o SortedDefs(SubSeq(s, 1, m - 1) \o SubSeq(s, m + 1, Len(s)))

\* lines 249-254: the alias of a node whose name was seen n - 1 times before
NodeAlias(node_name, n) ==
    IF n > 1 THEN node_name \o "_" \o ToString(n) ELSE node_name

\* lines 244-259, from the i-th definition on; st holds the three dicts
RECURSIVE NameNodes(_, _, _)
NameNodes(assets_defs, i, st) ==
    IF i > Len(assets_defs) THEN st
    ELSE LET ad == assets_defs[i]
             node_name == ad.node_name
             n == IF node_name \in DOMAIN st.collisions
                  THEN st.collisions[node_name] + 1 ELSE 1
             node_alias == NodeAlias(node_name, n)
             outs == KeysByOutputName(ad)
             old == st.node_alias_and_output_by_asset_key
         IN NameNodes(assets_defs, i + 1,
              [collisions |-> Put(st.collisions, node_name, n),
               assets_defs_by_node_handle |->
                   Put(st.assets_defs_by_node_handle, node_alias, ad),
               node_alias_and_output_by_asset_key |->
                   [k \in DOMAIN old \cup Range(outs) |->
                       IF k \in Range(outs)
                       THEN <<node_alias, CHOOSE o \in DOMAIN outs : outs[o] = k>>
                       ELSE old[k]]])

Str(s) == [tag |-> "str", val |-> s]

NodeInvocation(name, alias) == [tag |-> "NodeInvocation", name |-> name, alias |-> alias]

\* lines 270-274: the key of a node in the deps dict
NodeKey(node_def_name, handle_name) ==
    IF handle_name # node_def_name
    THEN NodeInvocation(node_def_name, handle_name)
    ELSE Str(node_def_name)

\* the Unit Identifier a deps key stands for
HandleName(node_key) ==
    IF node_key.tag = "str" THEN node_key.val ELSE node_key.alias

DependencyDefinition(node, output) == [node |-> node, output |-> output]

\* lines 278-287: the deps of one node
NodeDeps(dep_keys_by_input_name, by_asset_key) ==
    [input_name \in {n \in DOMAIN dep_keys_by_input_name :
                        dep_keys_by_input_name[n] \in DOMAIN by_asset_key} |->
        DependencyDefinition(by_asset_key[dep_keys_by_input_name[input_name]][1],
                             by_asset_key[dep_keys_by_input_name[input_name]][2])]

\* The outcomes of build_node_deps: the three results (with the resolved inputs
\* and the lookup table kept for inspection), or the resolver's error.
BuildNodeDeps(assets_defs_in, sources) ==
    LET assets_defs == SortedDefs(assets_defs_in)
        st == NameNodes(assets_defs, 1,
                        [collisions |-> EmptyDict,
                         assets_defs_by_node_handle |-> EmptyDict,
                         node_alias_and_output_by_asset_key |-> EmptyDict])
        handles == st.assets_defs_by_node_handle
        by_asset_key == st.node_alias_and_output_by_asset_key
    IN {IF ~r.ok
        THEN [ok |-> FALSE, error |-> r.error, table |-> r.table, sorted |-> assets_defs]
        ELSE [ok |-> TRUE,
              deps |->
                  [node_key \in {NodeKey(handles[h].node_name, h) : h \in DOMAIN handles} |->
                      NodeDeps(r.dep_keys[handles[HandleName(node_key)].id], by_asset_key)],
              assets_defs_by_node_handle |-> handles,
              asset_keys_by_input_handle |->
                  [ih \in UNION {{<<h, n>> : n \in DOMAIN r.dep_keys[handles[h].id]} :
                                    h \in DOMAIN handles} |->
                      r.dep_keys[handles[ih[1]].id][ih[2]]],
              dep_keys |-> r.dep_keys,
              table |-> r.table,
              sorted |-> assets_defs]
        : r \in ResolveAssetsDefDeps(assets_defs, sources)}

-----------------------------------------------------------------------------
(* toposort (the library) and _has_cycles                                  *)

\* the loop of toposort: the layers yielded, and what is left when none is ready
RECURSIVE ToposortLoop(_)
ToposortLoop(data) ==
    LET ordered == {item \in DOMAIN data : data[item] = {}}
    IN IF ordered = {} THEN [layers |-> <<>>, rest |-> data]
       ELSE LET r == ToposortLoop([item \in DOMAIN data \ ordered |-> data[item] \ ordered])
            IN [layers |-> <<ordered>> \o r.layers, rest |-> r.rest]

\* list(toposort(data)): self dependencies are discarded, items that occur only
\* as dependencies get an empty entry; circular when CircularDependencyError
Toposort(data) ==
    IF DOMAIN data = {} THEN [circular |-> FALSE, layers |-> <<>>]
    ELSE LET d1 == [k \in DOMAIN data |-> data[k] \ {k}]
             extra_items_in_deps == UNION Range(d1) \ DOMAIN d1
             d2 == [k \in DOMAIN d1 \cup extra_items_in_deps |->
                       IF k \in DOMAIN d1 THEN d1[k] ELSE {}]
             r == ToposortLoop(d2)
         IN [circular |-> DOMAIN r.rest # {}, layers |-> r.layers]

\* lines 299-306: the node_deps dict handed to toposort
HasCyclesNodeDeps(deps) ==
    [upstream_node \in DOMAIN deps |->
        {Str(deps[upstream_node][n].node) : n \in DOMAIN deps[upstream_node]}]

\* _has_cycles
HasCycles(deps) == Toposort(HasCyclesNodeDeps(deps)).circular

-----------------------------------------------------------------------------
(* _attempt_resolve_cycles                                                 *)

\* some enumeration of a set: the order in which Python iterates it
RECURSIVE SetToSeq(_)
SetToSeq(S) ==
    IF S = {} THEN <<>>
    ELSE LET x == CHOOSE y \in S : TRUE IN <<x>> \o SetToSeq(S \ {x})

\* the last definition of the sequence that produces key
OwnerOf(assets_defs, key) ==
    assets_defs[Max({i \in 1..Len(assets_defs) : key \in Keys(assets_defs[i])})]

AllKeys(assets_defs) == UNION {Keys(assets_defs[i]) : i \in 1..Len(assets_defs)}

\* generate_asset_dep_graph: the upstream and downstream names of every asset
\* name, from the asset_deps the definitions declare
GenerateAssetDepGraph(assets_defs) ==
    LET keys == AllKeys(assets_defs)
        upstream ==
            [name \in {ToUserString(k) : k \in keys} |->
                LET k == CHOOSE c \in keys : ToUserString(c) = name
                IN {ToUserString(u) : u \in OwnerOf(assets_defs, k).asset_deps[k]}]
        names == DOMAIN upstream \cup UNION Range(upstream)
    IN [upstream |-> upstream,
        downstream |-> [name \in names |-> {n \in DOMAIN upstream : name \in upstream[n]}]]

\* lines 338-341
AssetsDefsByAssetName(assets_defs) ==
    [name \in {ToUserString(k) : k \in AllKeys(assets_defs)} |->
        OwnerOf(assets_defs, CHOOSE c \in AllKeys(assets_defs) : ToUserString(c) = name)]

\* lines 349-357: whether the downstream asset counts as in the current node.
\* For a name no definition produces cur_node_asset_keys is a set of str, and
\* the AssetKey built from downstream_name equals no str.
InCurrentNode(by_name, name, downstream_name) ==
    IF name \in DOMAIN by_name
    THEN FromUserString(downstream_name) \in Keys(by_name[name])
    ELSE FALSE

\* a variant of NewColor that increments on every step; C12_TerminatesAmended
\* tells it from NewColor
NewColorAlways(by_name, name, downstream_name, cur_color) == cur_color + 1

\* lines 358-360
NewColor(by_name, name, downstream_name, cur_color) ==
    IF InCurrentNode(by_name, name, downstream_name) THEN cur_color ELSE cur_color + 1

\* colors.get(name, -1)
ColorOr(cs, name) == IF name \in DOMAIN cs THEN cs[name] ELSE -1

\* _dfs(name, cur_color) on the colors dict cs, and its loop over the downstream
\* names still to visit
RECURSIVE Dfs(_, _, _, _, _)
RECURSIVE DfsLoop(_, _, _, _, _, _)
Dfs(G, by_name, cs, name, cur_color) ==
    DfsLoop(G, by_name, Put(cs, name, cur_color), name, cur_color,
            SetToSeq(G.downstream[name]))

DfsLoop(G, by_name, cs, name, cur_color, todo) ==
    IF todo = <<>> THEN cs
    ELSE LET downstream_name == Head(todo)
             new_color == NewColor(by_name, name, downstream_name, cur_color)
             after == IF ColorOr(cs, downstream_name) < new_color
                      THEN Dfs(G, by_name, cs, downstream_name, new_color)
                      ELSE cs
         IN DfsLoop(G, by_name, after, name, cur_color, Tail(todo))

\* lines 370-371
RECURSIVE DfsRoots(_, _, _, _)
DfsRoots(G, by_name, cs, roots) ==
    IF roots = <<>> THEN cs
    ELSE DfsRoots(G, by_name, Dfs(G, by_name, cs, Head(roots), 0), Tail(roots))

\* lines 373-383: color_mapping_by_assets_defs[assets_def]
ColorMapping(by_name, cs, ad) ==
    LET mine == {name \in DOMAIN cs \cap DOMAIN by_name : by_name[name].id = ad.id}
    IN [color \in {cs[name] : name \in mine} |->
           {FromUserString(name) : name \in {m \in mine : cs[m] = color}}]

\* A resolver that forgets the subset of one colour; C2_KeysPartitioned tells
\* it from Resubset.
ResubsetDropsFirst(ad, color_mapping) ==
    IF Cardinality(DOMAIN color_mapping) = 1 \/ ~ad.can_subset
    THEN <<ad>>
    ELSE LET cols == Tail(SetToSeq(DOMAIN color_mapping))
         IN [i \in 1..Len(cols) |-> SubsetFor(ad, color_mapping[cols[i]], cols[i])]

\* lines 387-391: what one definition contributes to ret
Resubset(ad, color_mapping) ==
    IF Cardinality(DOMAIN color_mapping) = 1 \/ ~ad.can_subset
    THEN <<ad>>
    ELSE LET cols == SetToSeq(DOMAIN color_mapping)
         IN [i \in 1..Len(cols) |-> SubsetFor(ad, color_mapping[cols[i]], cols[i])]

RECURSIVE ResubsetAll(_, _, _)
ResubsetAll(by_name, cs, ads) ==
    IF ads = <<>> THEN <<>>
    ELSE Resubset(Head(ads), ColorMapping(by_name, cs, Head(ads)))
         \o ResubsetAll(by_name, cs, Tail(ads))

\* _attempt_resolve_cycles: ret and the colouring, or the error of line 367.
\* ret lists the definitions that own a coloured name; nothing the compiler
\* does later reads the order of ret.
AttemptResolveCycles(assets_defs) ==
    LET G == GenerateAssetDepGraph(assets_defs)
        by_name == AssetsDefsByAssetName(assets_defs)
        toposorted == Toposort(G.upstream)
    IN IF toposorted.circular
       THEN [ok |-> FALSE, error |-> [type |-> "CircularDependencyError"]]
       ELSE IF toposorted.layers = <<>>
       THEN [ok |-> FALSE, error |-> [type |-> "IndexError"]]
       ELSE LET cs == DfsRoots(G, by_name, EmptyDict, SetToSeq(toposorted.layers[1]))
                owners == {by_name[name].id : name \in DOMAIN cs \cap DOMAIN by_name}
            IN [ok |-> TRUE, colors |-> cs,
                ret |-> ResubsetAll(by_name, cs,
                          SelectSeq(assets_defs, LAMBDA ad : ad.id \in owners))]

-----------------------------------------------------------------------------
(* build_job_partitions_from_assets                                        *)

PartitionsError(first_asset_key, second_asset_key) ==
    [type |-> "DagsterInvalidDefinitionError", what |-> "partitions",
     first_asset_key |-> first_asset_key, second_asset_key |-> second_asset_key]

\* The outcomes: the common partitions definition (NONE when no asset has
\* one), or the error, which names next(iter(keys)) of the two definitions.
BuildJobPartitionsFromAssets(assets_defs) ==
    LET assets_with_partitions_defs ==
            SelectSeq(assets_defs, LAMBDA ad : ad.partitions_def # NONE)
    IN IF Len(assets_with_partitions_defs) = 0 THEN {[ok |-> TRUE, value |-> NONE]}
       ELSE LET first == assets_with_partitions_defs[1]
                bad == {i \in 1..Len(assets_with_partitions_defs) :
                          assets_with_partitions_defs[i].partitions_def # first.partitions_def}
            IN IF bad = {} THEN {[ok |-> TRUE, value |-> first.partitions_def]}
               ELSE {[ok |-> FALSE, error |-> PartitionsError(k1, k2)] :
                       k1 \in Keys(assets_with_partitions_defs[Min(bad)]),
                       k2 \in Keys(first)}

\* line 100
JobPartitions(arg, assets_defs) ==
    IF arg # NONE THEN {[ok |-> TRUE, value |-> arg]}
    ELSE BuildJobPartitionsFromAssets(assets_defs)

-----------------------------------------------------------------------------
(* Resources                                                               *)

\* merge_dicts(a, b): the entries of b win
MergeDicts(a, b) ==
    [k \in DOMAIN a \cup DOMAIN b |-> IF k \in DOMAIN b THEN b[k] ELSE a[k]]

ResourceError(what, resource_key) ==
    [type |-> "DagsterInvalidDefinitionError", what |-> what, resource_key |-> resource_key]

\* lines 402-414 from the i-th of all_assets on: the error raised, or the
\* resource_defs_from_assets dict
RECURSIVE ResourceDefsFromAssets(_, _, _)
ResourceDefsFromAssets(all_assets, i, from_assets) ==
    IF i > Len(all_assets) THEN [ok |-> TRUE, value |-> from_assets]
    ELSE LET rd == all_assets[i].resource_defs
             next == [k \in DOMAIN from_assets \cup DOMAIN rd |->
                         IF k \in DOMAIN from_assets THEN from_assets[k] ELSE rd[k]]
             clash == {k \in DOMAIN rd : next[k] # rd[k]}
         IN IF clash # {}
            THEN [ok |-> FALSE,
                  error |-> ResourceError("conflict between assets", CHOOSE k \in clash : TRUE)]
            ELSE ResourceDefsFromAssets(all_assets, i + 1, next)

\* A checker that compares the bindings of the assets with each other only;
\* C9_ResourceConflictsFail tells it from EnsureResourcesDontConflict.
EnsureResourcesDontConflictAssetsOnly(assets_defs, sources, rdefs) ==
    LET r == ResourceDefsFromAssets(assets_defs \o sources, 1, EmptyDict)
    IN IF ~r.ok THEN r ELSE [ok |-> TRUE]

\* _ensure_resources_dont_conflict: the error raised, or ok
EnsureResourcesDontConflict(assets_defs, sources, rdefs) ==
    LET r == ResourceDefsFromAssets(assets_defs \o sources, 1, EmptyDict)
    IN IF ~r.ok THEN r
       ELSE LET clash == {k \in DOMAIN rdefs :
                            /\ k # "io_manager"
                            /\ k \in DOMAIN r.value
                            /\ r.value[k] # rdefs[k]}
            IN IF clash # {}
               THEN [ok |-> FALSE,
                     error |-> ResourceError("conflict with job", CHOOSE k \in clash : TRUE)]
               ELSE [ok |-> TRUE]

\* ensure_requirements_satisfied over all assets (lines 441-445): every
\* required key is bound by the job or by the asset itself
RequirementsSatisfied(all_assets, rdefs) ==
    LET missing(i) == all_assets[i].requirements
                        \ DOMAIN MergeDicts(rdefs, all_assets[i].resource_defs)
        bad == {i \in 1..Len(all_assets) : missing(i) # {}}
    IN IF bad = {} THEN [ok |-> TRUE]
       ELSE [ok |-> FALSE,
             error |-> ResourceError("missing", CHOOSE k \in missing(Min(bad)) : TRUE)]

\* lines 457-461
RECURSIVE MergeAll(_, _, _)
MergeAll(all_assets, i, acc) ==
    IF i > Len(all_assets) THEN acc
    ELSE MergeAll(all_assets, i + 1, MergeDicts(acc, all_assets[i].resource_defs))

\* get_all_resource_defs
GetAllResourceDefs(assets_defs, sources, rdefs) ==
    LET c == EnsureResourcesDontConflict(assets_defs, sources, rdefs)
        q == RequirementsSatisfied(assets_defs \o sources, rdefs)
    IN IF ~c.ok THEN c
       ELSE IF ~q.ok THEN q
       ELSE [ok |-> TRUE, value |-> MergeAll(assets_defs \o sources, 1, rdefs)]

-----------------------------------------------------------------------------
(* The graph over Unit Identifiers, and the translator                     *)

\* the units a deps dict names: its keys and the nodes its edges point to
Units(deps) ==
    {HandleName(nk) : nk \in DOMAIN deps}
    \cup UNION {{deps[nk][n].node : n \in DOMAIN deps[nk]} : nk \in DOMAIN deps}

\* u depends on v
UnitEdges(deps) ==
    UNION {{<<HandleName(nk), deps[nk][n].node>> : n \in DOMAIN deps[nk]} : nk \in DOMAIN deps}

RECURSIVE ReachFrom(_, _, _)
ReachFrom(E, seen, frontier) ==
    IF frontier = {} THEN seen
    ELSE LET nxt == {e[2] : e \in {d \in E : d[1] \in frontier}} \ seen
         IN ReachFrom(E, seen \cup nxt, nxt)

\* some unit reaches itself along one or more edges
UnitGraphCyclic(deps) ==
    LET E == UnitEdges(deps)
    IN \E u \in Units(deps) : u \in ReachFrom(E, {}, {u})

DefaultJobIoManager == "default_job_io_manager"

\* lines 123-155: GraphDefinition refuses a cyclic graph, get_all_resource_defs
\* may raise, to_job returns the job
Translate(b, assets_defs, sources, rdefs, pdef) ==
    LET all == GetAllResourceDefs(assets_defs, sources,
                   MergeDicts([io_manager |-> DefaultJobIoManager], rdefs))
    IN IF UnitGraphCyclic(b.deps)
       THEN [ok |-> FALSE,
             error |-> [type |-> "DagsterInvalidDefinitionError", what |-> "circular"]]
       ELSE IF ~all.ok THEN [ok |-> FALSE, error |-> all.error]
       ELSE [ok |-> TRUE,
             job |-> [dependencies |-> b.deps,
                      node_defs |-> assets_defs,
                      assets_defs_by_node_handle |-> b.assets_defs_by_node_handle,
                      asset_keys_by_input_handle |-> b.asset_keys_by_input_handle,
                      resource_defs |-> all.value,
                      partitions_def |-> pdef]]

-----------------------------------------------------------------------------
(* build_assets_job, one action per call it makes                          *)

NotBuilt == [ok |-> FALSE, pending |-> TRUE]

NoResult == [ok |-> FALSE, pending |-> TRUE]

NoColors == EmptyDict

Raise(err) == [ok |-> FALSE, error |-> err]

InitWith(in) ==
    /\ pc = "start"
    /\ supplied = in.assets
    /\ assets = in.assets
    /\ source_assets = in.source_assets
    /\ resource_defs = in.resource_defs
    /\ partitions_arg = in.partitions_def
    /\ partitions_def = NONE
    /\ built = NotBuilt
    /\ cyclic = FALSE
    /\ colors = NoColors
    /\ result = NoResult
    /\ n_resolve = 0
    /\ n_build = 0
    /\ stack = <<>>
    /\ pending_roots = {}

\* line 100
Partitions ==
    /\ pc = "start"
    /\ \E r \in JobPartitions(partitions_arg, assets) :
          IF r.ok
          THEN /\ partitions_def' = r.value
               /\ pc' = "partitioned"
               /\ UNCHANGED result
          ELSE /\ result' = Raise(r.error)
               /\ pc' = "done"
               /\ UNCHANGED partitions_def
    /\ UNCHANGED <<supplied, assets, source_assets, resource_defs, partitions_arg,
                   built, cyclic, colors, n_resolve, n_build>>
    /\ UNCHANGED <<stack, pending_roots>>

\* lines 112-114
Assemble ==
    /\ pc = "partitioned"
    /\ \E b \in BuildNodeDeps(assets, source_assets) :
          /\ built' = b
          /\ IF b.ok
             THEN pc' = "assembled" /\ UNCHANGED result
             ELSE pc' = "done" /\ result' = Raise(b.error)
    /\ n_build' = n_build + 1
    /\ UNCHANGED <<supplied, assets, source_assets, resource_defs, partitions_arg,
                   partitions_def, cyclic, colors, n_resolve>>
    /\ UNCHANGED <<stack, pending_roots>>

\* lines 117-118, _has_cycles having returned True
ResolveCycles ==
    /\ pc = "assembled"
    /\ HasCycles(built.deps)
    /\ cyclic' = TRUE
    /\ n_resolve' = n_resolve + 1
    /\ LET r == AttemptResolveCycles(assets)
       IN IF r.ok
          THEN /\ assets' = r.ret
               /\ colors' = r.colors
               /\ pc' = "resolved"
               /\ UNCHANGED result
          ELSE /\ result' = Raise(r.error)
               /\ pc' = "done"
               /\ UNCHANGED <<assets, colors>>
    /\ UNCHANGED <<supplied, source_assets, resource_defs, partitions_arg,
                   partitions_def, built, n_build>>
    /\ UNCHANGED <<stack, pending_roots>>

\* A compiler that goes back to the cycle check after the second assembly;
\* C8_OnePassThenFail tells it from Reassemble.
ReassembleRetry ==
    /\ pc = "resolved"
    /\ \E b \in BuildNodeDeps(assets, source_assets) :
          /\ built' = b
          /\ IF b.ok
             THEN pc' = "assembled" /\ UNCHANGED result
             ELSE pc' = "done" /\ result' = Raise(b.error)
    /\ n_build' = n_build + 1
    /\ UNCHANGED <<supplied, assets, source_assets, resource_defs, partitions_arg,
                   partitions_def, cyclic, colors, n_resolve>>
    /\ UNCHANGED <<stack, pending_roots>>

\* lines 119-121
Reassemble ==
    /\ pc = "resolved"
    /\ \E b \in BuildNodeDeps(assets, source_assets) :
          /\ built' = b
          /\ IF b.ok
             THEN pc' = "reassembled" /\ UNCHANGED result
             ELSE pc' = "done" /\ result' = Raise(b.error)
    /\ n_build' = n_build + 1
    /\ UNCHANGED <<supplied, assets, source_assets, resource_defs, partitions_arg,
                   partitions_def, cyclic, colors, n_resolve>>
    /\ UNCHANGED <<stack, pending_roots>>

\* lines 123-155, after _has_cycles returned False or after the second assembly
Finish ==
    /\ \/ pc = "assembled" /\ ~HasCycles(built.deps)
       \/ pc = "reassembled"
    /\ result' = Translate(built, assets, source_assets, resource_defs, partitions_def)
    /\ pc' = "done"
    /\ UNCHANGED <<supplied, assets, source_assets, resource_defs, partitions_arg,
                   partitions_def, built, cyclic, colors, n_resolve, n_build>>
    /\ UNCHANGED <<stack, pending_roots>>

Next == Partitions \/ Assemble \/ ResolveCycles \/ Reassemble \/ Finish

-----------------------------------------------------------------------------
(* The inputs checked                                                      *)

Ka == AssetKey(<<"a">>)
Kb == AssetKey(<<"b">>)
Kc == AssetKey(<<"c">>)
Kd == AssetKey(<<"d">>)
Kpa == AssetKey(<<"p", "a">>)
Ks == AssetKey(<<"s">>)

\* the name of the input or output of a node that carries a key
RECURSIVE PortName(_)
PortName(p) == IF Len(p) = 1 THEN p[1] ELSE p[1] \o "_" \o PortName(Tail(p))

\* the subsets of S with at most n elements
RECURSIVE SubsetsUpTo(_, _)
SubsetsUpTo(S, n) ==
    IF n = 0 THEN {{}}
    ELSE LET prev == SubsetsUpTo(S, n - 1)
         IN prev \cup {T \cup {e} : T \in prev, e \in S}

\* The ways to give the keys of the sorted sequence ks to at most n definitions
\* (0: the key is not produced); the definitions are numbered in the order of
\* their first key.
RECURSIVE Owners(_, _)
Owners(ks, n) ==
    IF ks = <<>> THEN {<<>>}
    ELSE {o \o <<b>> : o \in Owners(SubSeq(ks, 1, Len(ks) - 1), n),
                        b \in 0..n} 

OwnersOk(o) ==
    \A i \in 1..Len(o) : o[i] <= 1 + Max({0} \cup {o[j] : j \in 1..(i - 1)})

\* an AssetsDefinition with the given outputs; edges <<k, u>>: k is computed from u
MkDef(i, name, keys, edges, can_subset) ==
    LET asset_deps == [k \in keys |-> {e[2] : e \in {x \in edges : x[1] = k}}]
        ins == UNION Range(asset_deps) \ keys
    IN [id |-> <<i>>,
        node_name |-> name,
        node_keys_by_input_name |->
            [n \in {PortName(k.path) : k \in ins} |->
                CHOOSE k \in ins : PortName(k.path) = n],
        node_keys_by_output_name |->
            [n \in {PortName(k.path) : k \in keys} |->
                CHOOSE k \in keys : PortName(k.path) = n],
        asset_deps |-> asset_deps,
        selected |-> keys,
        group_names_by_key |-> [k \in keys |-> "g"],
        can_subset |-> can_subset,
        partitions_def |-> NONE,
        resource_defs |-> EmptyDict,
        requirements |-> {}]

MkSource(key) ==
    [key |-> key, group_name |-> "g", resource_defs |-> EmptyDict, requirements |-> {}]

\* the ways to give the keys of ks to definitions, up to renumbering
OwnerChoices(ks, maxdefs) == {o \in Owners(ks, maxdefs) : OwnersOk(o)}

Produced(ks, o) == {ks[i] : i \in {j \in 1..Len(ks) : o[j] > 0}}

\* The edge sets of the graphs whose produced keys are computed from at most
\* maxedges keys in all, taken among the keys of ks and xs.
EdgeChoices(ks, xs, o, maxedges) ==
    SubsetsUpTo({<<k, u>> \in Produced(ks, o) \X ({ks[i] : i \in 1..Len(ks)} \cup xs) : k # u},
                maxedges)

\* The edge sets in which every produced key is computed from at most one key.
ChainChoices(ks, xs, o) ==
    LET P == Produced(ks, o)
        all == {ks[i] : i \in 1..Len(ks)} \cup xs
        none == AssetKey(<<>>)
    IN {{<<k, f[k]>> : k \in {c \in P : f[c] # none}} :
           f \in {g \in [P -> all \cup {none}] : \A k \in P : g[k] # k}}

DefNames == <<"f", "g", "h", "k">>

AllTrue == [i \in 1..Len(DefNames) |-> TRUE]

\* the definitions of a graph, named by names
DefsOf(ks, o, edges, names) ==
    LET n == Max({0} \cup Range(o))
    IN [i \in 1..n |->
           MkDef(i, names[i], {ks[j] : j \in {l \in 1..Len(ks) : o[l] = i}}, edges, TRUE)]

\* which definitions may be subsettable or not: those with several outputs (a
\* definition with one output never gets two colours)
SubsetChoices(defs) ==
    {cs \in [1..Len(defs) -> BOOLEAN] :
        \A i \in 1..Len(defs) : Cardinality(Keys(defs[i])) = 1 => cs[i]}

WithCanSubset(defs, cs) == [i \in 1..Len(defs) |-> [defs[i] EXCEPT !.can_subset = cs[i]]]

\* the orders in which n definitions can be supplied
Perms(n) == {p \in [1..n -> 1..n] : \A i, j \in 1..n : p[i] = p[j] => i = j}

Permuted(defs, p) == [i \in 1..Len(defs) |-> defs[p[i]]]

MkInput(defs, sources) ==
    [assets |-> defs, source_assets |-> sources,
     resource_defs |-> EmptyDict, partitions_def |-> NONE]

GraphKeys == <<Ka, Kb, Kc, Kd>>

\* Graphs over four keys and a source, every definition with its own node name,
\* the definitions with several outputs subsettable or not.
Init ==
    \E o \in OwnerChoices(GraphKeys, MaxDefs) :
      \E edges \in EdgeChoices(GraphKeys, {Ks}, o, MaxEdges) :
        LET defs == DefsOf(GraphKeys, o, edges, DefNames)
        IN \E cs \in SubsetChoices(defs) :
             InitWith(MkInput(WithCanSubset(defs, cs), <<MkSource(Ks)>>))

Spec == Init /\ [][Next]_vars

NameKeys == <<Ka, Kb, Kc>>

NodeNames == {"f", "f_2"}

\* Graphs over three keys, the definitions supplied in any order and named
\* from two node names, one of which has the form of a suffixed alias.
InitNames ==
    \E o \in OwnerChoices(NameKeys, MaxDefs) :
      \E edges \in EdgeChoices(NameKeys, {}, o, MaxEdges) :
        LET n == Max({0} \cup Range(o))
        IN \E names \in [1..n -> NodeNames] :
             \E p \in Perms(n) :
               InitWith(MkInput(Permuted(DefsOf(NameKeys, o, edges, names), p), <<>>))

SpecNames == InitNames /\ [][Next]_vars

MaxKeys == 4

FallbackKeys == <<Ka, Kb, Kc, Kd, Kpa>>

\* Graphs over keys two of which end in the same path segment, at most MaxKeys
\* of them produced, the others referenced only; every produced key is
\* computed from at most one key.
InitKeys ==
    \E o \in {c \in OwnerChoices(FallbackKeys, MaxDefs) :
                 Cardinality(Produced(FallbackKeys, c)) <= MaxKeys} :
      \E edges \in ChainChoices(FallbackKeys, {Ks}, o) :
        InitWith(MkInput(DefsOf(FallbackKeys, o, edges, DefNames), <<MkSource(Ks)>>))

SpecKeys == InitKeys /\ [][Next]_vars

\* Two graphs, one with a cycle between its units and one without, to carry
\* the resource and partition inputs.
CarrierGraphs ==
    {[owner |-> <<1, 2, 1>>, edges |-> {<<Kb, Ka>>, <<Kc, Kb>>}],
     [owner |-> <<1, 2, 0>>, edges |-> {<<Kb, Ka>>, <<Ka, Ks>>}]}

ResourceKeys == {"io_manager", "r"}

ResourceObjects == {"o1", "o2"}

\* the resource_defs dicts over the resource keys
Bindings == UNION {[D -> ResourceObjects] : D \in SUBSET ResourceKeys}

\* Two definitions and a source that bind resources, a job that binds
\* resources, the first definition requiring a resource or not.
InitResources ==
    \E g \in CarrierGraphs :
      \E b1 \in Bindings, b2 \in Bindings, bs \in Bindings, bj \in Bindings :
        \E req \in SUBSET {"r"} :
          LET defs == DefsOf(NameKeys, g.owner, g.edges, DefNames)
              in == MkInput(
                  [i \in 1..Len(defs) |->
                      [defs[i] EXCEPT !.resource_defs = IF i = 1 THEN b1 ELSE b2,
                                      !.requirements = IF i = 1 THEN req ELSE {}]],
                  <<[MkSource(Ks) EXCEPT !.resource_defs = bs]>>)
          IN InitWith([in EXCEPT !.resource_defs = bj])

SpecResources == InitResources /\ [][Next]_vars

Policies == {"daily", "hourly"}

\* Two definitions with or without a partitions definition each, and a call
\* that passes partitions_def or not.
InitPartitions ==
    \E g \in CarrierGraphs :
      \E ps \in [1..2 -> Policies \cup {NONE}], arg \in Policies \cup {NONE} :
        LET defs == DefsOf(NameKeys, g.owner, g.edges, DefNames)
            in == MkInput([i \in 1..Len(defs) |-> [defs[i] EXCEPT !.partitions_def = ps[i]]],
                          <<MkSource(Ks)>>)
        IN InitWith([in EXCEPT !.partitions_def = arg])

SpecPartitions == InitPartitions /\ [][Next]_vars

-----------------------------------------------------------------------------
(* _attempt_resolve_cycles step by step: one action per call of toposort,   *)
(* per call of _dfs, per turn of the loop of _dfs and per return.           *)
(* pc is "validate" before line 367, "coloring" during the loop of lines    *)
(* 370-371, "returned" after line 393 and "raised" when line 367 raised.    *)
(* A frame of stack is a call of _dfs: its name, its cur_color and the      *)
(* downstream names its loop has not visited yet. The loops iterate sets,   *)
(* so the next name is any of those left.                                   *)

MaxDfsEdges == 3

Frame(G, name, cur_color) ==
    [name |-> name, cur_color |-> cur_color, todo |-> G.downstream[name]]

\* line 367 and toposorted[0] of line 370
Validate ==
    /\ pc = "validate"
    /\ LET toposorted == Toposort(GenerateAssetDepGraph(assets).upstream)
       IN IF toposorted.circular
          THEN /\ pc' = "raised"
               /\ result' = Raise([type |-> "CircularDependencyError"])
               /\ UNCHANGED pending_roots
          ELSE IF toposorted.layers = <<>>
          THEN /\ pc' = "raised"
               /\ result' = Raise([type |-> "IndexError"])
               /\ UNCHANGED pending_roots
          ELSE /\ pc' = "coloring"
               /\ pending_roots' = toposorted.layers[1]
               /\ UNCHANGED result
    /\ UNCHANGED <<supplied, assets, source_assets, resource_defs, partitions_arg,
                   partitions_def, built, cyclic, colors, n_resolve, n_build, stack>>

\* lines 370-371: _dfs(root_name, 0), with line 348
DfsRoot ==
    /\ pc = "coloring"
    /\ stack = <<>>
    /\ \E root_name \in pending_roots :
          /\ pending_roots' = pending_roots \ {root_name}
          /\ stack' = <<Frame(GenerateAssetDepGraph(assets), root_name, 0)>>
          /\ colors' = Put(colors, root_name, 0)
    /\ UNCHANGED <<pc, supplied, assets, source_assets, resource_defs, partitions_arg,
                   partitions_def, built, cyclic, result, n_resolve, n_build>>

\* lines 354-364, the test of line 362 true: _dfs(downstream_name, new_color)
DfsRecurse ==
    /\ pc = "coloring"
    /\ stack # <<>>
    /\ LET top == stack[Len(stack)]
       IN \E downstream_name \in top.todo :
            LET new_color == NewColor(AssetsDefsByAssetName(assets), top.name,
                                      downstream_name, top.cur_color)
            IN /\ ColorOr(colors, downstream_name) < new_color
               /\ stack' = Append([stack EXCEPT ![Len(stack)].todo = @ \ {downstream_name}],
                                  Frame(GenerateAssetDepGraph(assets), downstream_name,
                                        new_color))
               /\ colors' = Put(colors, downstream_name, new_color)
    /\ UNCHANGED <<pc, supplied, assets, source_assets, resource_defs, partitions_arg,
                   partitions_def, built, cyclic, result, n_resolve, n_build,
                   pending_roots>>

\* lines 354-364, the test of line 362 false
DfsSkip ==
    /\ pc = "coloring"
    /\ stack # <<>>
    /\ LET top == stack[Len(stack)]
       IN \E downstream_name \in top.todo :
            LET new_color == NewColor(AssetsDefsByAssetName(assets), top.name,
                                      downstream_name, top.cur_color)
            IN /\ ~(ColorOr(colors, downstream_name) < new_color)
               /\ stack' = [stack EXCEPT ![Len(stack)].todo = @ \ {downstream_name}]
    /\ UNCHANGED <<pc, supplied, assets, source_assets, resource_defs, partitions_arg,
                   partitions_def, built, cyclic, colors, result, n_resolve, n_build,
                   pending_roots>>

\* the loop of line 354 is over: _dfs returns
DfsReturn ==
    /\ pc = "coloring"
    /\ stack # <<>>
    /\ stack[Len(stack)].todo = {}
    /\ stack' = SubSeq(stack, 1, Len(stack) - 1)
    /\ UNCHANGED <<pc, supplied, assets, source_assets, resource_defs, partitions_arg,
                   partitions_def, built, cyclic, colors, result, n_resolve, n_build,
                   pending_roots>>

\* lines 373-393, after the loop of lines 370-371
ReturnRet ==
    /\ pc = "coloring"
    /\ stack = <<>>
    /\ pending_roots = {}
    /\ LET by_name == AssetsDefsByAssetName(assets)
           owners == {by_name[name].id : name \in DOMAIN colors \cap DOMAIN by_name}
       IN assets' = ResubsetAll(by_name, colors,
                                SelectSeq(assets, LAMBDA ad : ad.id \in owners))
    /\ pc' = "returned"
    /\ UNCHANGED <<supplied, source_assets, resource_defs, partitions_arg,
                   partitions_def, built, cyclic, colors, result, n_resolve, n_build,
                   stack, pending_roots>>

NextDfs == Validate \/ DfsRoot \/ DfsRecurse \/ DfsSkip \/ DfsReturn \/ ReturnRet

\* Graphs over three keys and an unproduced key, of at most MaxDfsEdges
\* dependencies, a dependency of a key on itself included.
InitDfs ==
    \E o \in OwnerChoices(NameKeys, MaxDefs) :
      \E edges \in SubsetsUpTo(Produced(NameKeys, o)
                                 \X ({NameKeys[i] : i \in 1..Len(NameKeys)} \cup {Ks}),
                               MaxDfsEdges) :
        LET defs == DefsOf(NameKeys, o, edges, DefNames)
        IN /\ pc = "validate"
           /\ supplied = defs
           /\ assets = defs
           /\ source_assets = <<>>
           /\ resource_defs = EmptyDict
           /\ partitions_arg = NONE
           /\ partitions_def = NONE
           /\ built = NotBuilt
           /\ cyclic = TRUE
           /\ colors = NoColors
           /\ result = NoResult
           /\ n_resolve = 1
           /\ n_build = 1
           /\ stack = <<>>
           /\ pending_roots = {}

\* line 367 is executed: the call does not stay before it
LeavesValidate == pc = "validate" /\ pc' \in {"coloring", "raised"}

\* the calls, the loop turns and the returns of lines 347-393
Colouring == DfsRoot \/ DfsRecurse \/ DfsSkip \/ DfsReturn \/ ReturnRet

\* The function runs on, single-threaded: a step that can be taken is taken.
SpecDfs ==
    InitDfs /\ [][NextDfs]_vars /\ WF_pc(LeavesValidate) /\ WF_vars(Colouring)

-----------------------------------------------------------------------------
(* What the claims speak about                                             *)

\* some node of the graph with edge set E reaches itself
Cyclic(E) == \E e \in E : e[1] \in ReachFrom(E, {}, {e[1]})

\* the definitions the last build_node_deps was called with
BuiltDefs == {built.sorted[i] : i \in 1..Len(built.sorted)}

SuppliedDefs == {supplied[i] : i \in 1..Len(supplied)}

SourceKeys == {source_assets[i].key : i \in 1..Len(source_assets)}

ProducedKeys == UNION {Keys(ad) : ad \in BuiltDefs}

MinKey(ad) == CHOOSE k \in Keys(ad) : \A o \in Keys(ad) : o = k \/ KeyLess(k, o)

\* the Unit Identifier the naming rule gives a definition: the bare node name
\* for the first of its name in the order of the sorted output keys, name_k for
\* the k-th
ExpectedAlias(ad) ==
    LET k == 1 + Cardinality({o \in BuiltDefs :
                                /\ o.node_name = ad.node_name
                                /\ KeyLess(MinKey(o), MinKey(ad))})
    IN IF k = 1 THEN ad.node_name ELSE ad.node_name \o "_" \o ToString(k)

\* the output groups of a definition
GroupsOf(ad) == {ad.group_names_by_key[k] : k \in Keys(ad)}

\* the input key matches by the group rule: the definition has one output
\* group and the lookup table has an entry for that group and the key's name
MatchesByGroup(ad, k) ==
    /\ Cardinality(GroupsOf(ad)) = 1
    /\ \E g \in GroupsOf(ad) : <<g, Last(k.path)>> \in DOMAIN built.table

GroupEntry(ad, k) == built.table[<<CHOOSE g \in GroupsOf(ad) : TRUE, Last(k.path)>>]

MatchesExactly(k) == k \in ProducedKeys \cup SourceKeys

\* the artifact-level graph of the built definitions, as declared and as resolved
DeclaredArtifactEdges ==
    UNION {UNION {{<<k, u>> : u \in ad.asset_deps[k]} : k \in Keys(ad)} : ad \in BuiltDefs}

ResolvedKey(ad, u) ==
    LET ins == KeysByInputName(ad)
        ns == {n \in DOMAIN ins : ins[n] = u}
    IN IF ns = {} THEN u ELSE built.dep_keys[ad.id][CHOOSE n \in ns : TRUE]

ResolvedArtifactEdges ==
    UNION {UNION {{<<k, ResolvedKey(ad, u)>> : u \in ad.asset_deps[k]} : k \in Keys(ad)} :
             ad \in BuiltDefs}

\* the colours the last pass gave the outputs of a supplied definition
ColoursOf(ad) == {colors[ToUserString(k)] : k \in Keys(ad)}

KeysOfColour(ad, c) == {k \in Keys(ad) : colors[ToUserString(k)] = c}

\* the definitions of assets made from the supplied definition ad
Descendants(ad) ==
    {assets[i] : i \in {j \in 1..Len(assets) : SubSeq(assets[j].id, 1, 1) = ad.id}}

\* the call went through lines 123-155 with a graph GraphDefinition accepts
ReachedResources ==
    /\ pc = "done"
    /\ built.ok
    /\ n_resolve = 0 \/ n_build = 2
    /\ ~UnitGraphCyclic(built.deps)

-----------------------------------------------------------------------------
(* The claims                                                              *)

\* C1: when the artifact-level graph is acyclic and every definition that got
\* more than one colour is subsettable, the unit graph of the second
\* build_node_deps, after _attempt_resolve_cycles, has no cycle.
C1_ResolvedGraphAcyclic ==
    ( /\ pc = "reassembled"
      /\ \A ad \in SuppliedDefs : Cardinality(ColoursOf(ad)) > 1 => ad.can_subset
      /\ ~Cyclic(DeclaredArtifactEdges)
      /\ ~Cyclic(ResolvedArtifactEdges) )
    => ~UnitGraphCyclic(built.deps)

\* C2: when _attempt_resolve_cycles returns, every supplied output key is
\* produced by exactly one returned definition and no key is added; a supplied
\* definition is returned as it is, or replaced by one subset per colour of its
\* outputs that holds exactly the keys of that colour.
C2_KeysPartitioned ==
    colors # NoColors =>
        /\ AllKeys(assets) = AllKeys(supplied)
        /\ \A k \in AllKeys(supplied) :
              Cardinality({i \in 1..Len(assets) : k \in Keys(assets[i])}) = 1
        /\ \A i \in 1..Len(assets) : Keys(assets[i]) # {}
        /\ \A ad \in SuppliedDefs :
              \/ Descendants(ad) = {ad}
              \/ /\ Cardinality(ColoursOf(ad)) > 1
                 /\ {Keys(d) : d \in Descendants(ad)} = {KeysOfColour(ad, c) : c \in ColoursOf(ad)}
                 /\ Cardinality(Descendants(ad)) = Cardinality(ColoursOf(ad))
                 /\ Cardinality({i \in 1..Len(assets) : assets[i] \in Descendants(ad)})
                      = Cardinality(ColoursOf(ad))

\* C2's case: a definition was split
C2_Witness ==
    /\ pc = "resolved"
    /\ \E ad \in SuppliedDefs : Cardinality(Descendants(ad)) > 1

\* C3: _has_cycles returns true exactly when the unit graph of the deps that
\* build_node_deps produced has a directed cycle.
C3_HasCyclesIffCyclic ==
    built.ok => (HasCycles(built.deps) <=> UnitGraphCyclic(built.deps))

\* C4: build_node_deps gives the definitions pairwise distinct Unit
\* Identifiers, one entry of the unit map each: the bare node name for the
\* first of a name in output-key-sorted order, name_k for the k-th.
C4_UnitIdentifiersDistinct ==
    built.ok =>
        /\ Cardinality(DOMAIN built.assets_defs_by_node_handle) = Cardinality(BuiltDefs)
        /\ \A ad \in BuiltDefs :
              /\ ExpectedAlias(ad) \in DOMAIN built.assets_defs_by_node_handle
              /\ built.assets_defs_by_node_handle[ExpectedAlias(ad)].id = ad.id

\* C5: an input whose declared key is an output key of a supplied definition
\* or the key of a supplied source resolves to exactly that key.
C5_ExactMatchWins ==
    n_build > 0 =>
        \A ad \in BuiltDefs :
            \A n \in DOMAIN KeysByInputName(ad) :
                LET k == KeysByInputName(ad)[n]
                IN MatchesExactly(k) =>
                      IF built.ok THEN built.dep_keys[ad.id][n] = k
                      ELSE built.error.input # k

\* C6: an input whose declared key is not produced resolves to the lookup
\* table's entry when its definition has one output group and the table has
\* an entry for that group and the key's last segment; when an input matches
\* neither way the resolver raises a DefinitionError that names such an input
\* and an output key of its definition, and returns nothing.
C6_GroupFallbackOrError ==
    n_build > 0 =>
        /\ \A ad \in BuiltDefs :
              \A n \in DOMAIN KeysByInputName(ad) :
                  LET k == KeysByInputName(ad)[n]
                  IN (~MatchesExactly(k) /\ MatchesByGroup(ad, k)) =>
                        IF built.ok THEN built.dep_keys[ad.id][n] = GroupEntry(ad, k)
                        ELSE built.error.input # k
        /\ (\E ad \in BuiltDefs : \E k \in Range(KeysByInputName(ad)) :
                ~MatchesExactly(k) /\ ~MatchesByGroup(ad, k))
           => /\ ~built.ok
              /\ built.error.type = "DagsterInvalidDefinitionError"
              /\ \E ad \in BuiltDefs :
                    /\ built.error.input \in Range(KeysByInputName(ad))
                    /\ ~MatchesExactly(built.error.input)
                    /\ ~MatchesByGroup(ad, built.error.input)
                    /\ built.error.asset \in Keys(ad)

\* C7: in the result of build_node_deps the input i of unit U has an edge to
\* output o of unit V exactly when the key resolved for i is the key V
\* produces on o; every resolved input of every definition has its Input
\* Handle entry, which holds the resolved key.
C7_EdgesMatchResolvedKeys ==
    built.ok =>
        LET h == built.assets_defs_by_node_handle
            deps == built.deps
            resolved(u) == built.dep_keys[h[u].id]
        IN \A nk \in DOMAIN deps :
              LET u == HandleName(nk)
              IN /\ u \in DOMAIN h
                 \* every edge leads to the unit and output that produce the key
                 /\ \A n \in DOMAIN deps[nk] :
                      LET v == deps[nk][n].node
                          o == deps[nk][n].output
                      IN /\ n \in DOMAIN resolved(u)
                         /\ v \in DOMAIN h
                         /\ o \in DOMAIN KeysByOutputName(h[v])
                         /\ KeysByOutputName(h[v])[o] = resolved(u)[n]
                 \* every input whose key a unit produces has the edge to it
                 /\ \A n \in DOMAIN resolved(u) :
                      \A v \in DOMAIN h :
                        \A o \in DOMAIN KeysByOutputName(h[v]) :
                          KeysByOutputName(h[v])[o] = resolved(u)[n]
                            => (n \in DOMAIN deps[nk]
                                  /\ deps[nk][n] = DependencyDefinition(v, o))
                 \* every resolved input has its Input Handle entry
                 /\ \A n \in DOMAIN resolved(u) :
                      /\ <<u, n>> \in DOMAIN built.asset_keys_by_input_handle
                      /\ built.asset_keys_by_input_handle[<<u, n>>] = resolved(u)[n]

\* C8: one call attempts cycle resolution at most once and assembles the
\* graph at most twice; a job is returned only for a graph that is acyclic
\* over Unit Identifiers, and a graph still cyclic after the resolution pass
\* ends the call in failure.
C8_OnePassThenFail ==
    /\ n_resolve <= 1
    /\ n_build <= 2
    /\ n_build <= n_resolve + 1
    /\ (pc = "done" /\ result.ok) => ~UnitGraphCyclic(result.job.dependencies)
    /\ (pc = "done" /\ n_resolve = 1 /\ n_build = 2 /\ built.ok
          /\ UnitGraphCyclic(built.deps))
       => (~result.ok /\ result.error.type = "DagsterInvalidDefinitionError")
    /\ result.ok => pc = "done"

\* C8's case: the graph was still cyclic after the one resolution pass
C8_Witness ==
    /\ pc = "done"
    /\ n_resolve = 1
    /\ n_build = 2
    /\ built.ok
    /\ UnitGraphCyclic(built.deps)
    /\ ~result.ok
\* the carriers of resource bindings and the bindings of the job, as line 145
\* passes them to get_all_resource_defs
Carriers == assets \o source_assets

JobBindings == MergeDicts([io_manager |-> DefaultJobIoManager], resource_defs)

BoundKeys == UNION {DOMAIN Carriers[i].resource_defs : i \in 1..Len(Carriers)}

ConflictAmongCarriers ==
    \E i \in 1..Len(Carriers), j \in 1..Len(Carriers) :
        \E k \in DOMAIN Carriers[i].resource_defs \cap DOMAIN Carriers[j].resource_defs :
            Carriers[i].resource_defs[k] # Carriers[j].resource_defs[k]

ConflictWithJob ==
    \E i \in 1..Len(Carriers) :
        \E k \in (DOMAIN Carriers[i].resource_defs \cap DOMAIN JobBindings) \ {"io_manager"} :
            Carriers[i].resource_defs[k] # JobBindings[k]

AllBindingsSame ==
    /\ ~ConflictAmongCarriers
    /\ \A i \in 1..Len(Carriers) :
          \A k \in DOMAIN Carriers[i].resource_defs \cap DOMAIN JobBindings :
              Carriers[i].resource_defs[k] = JobBindings[k]

RequirementsMet ==
    \A i \in 1..Len(Carriers) :
        Carriers[i].requirements \subseteq DOMAIN JobBindings \cup DOMAIN Carriers[i].resource_defs

\* C9: get_all_resource_defs fails with a DefinitionError when two
\* computations or sources bind one resource key to different objects, or the
\* job binds a key other than io_manager to an object different from a
\* computation's or source's; when all bindings of every key are one object
\* and the requirements are met it returns one table with every bound key.
C9_ResourceConflictsFail ==
    ReachedResources =>
        /\ (ConflictAmongCarriers \/ ConflictWithJob)
             => /\ ~result.ok
                /\ result.error.type = "DagsterInvalidDefinitionError"
                /\ result.error.what \in {"conflict between assets", "conflict with job"}
        /\ (AllBindingsSame /\ RequirementsMet)
             => /\ result.ok
                /\ DOMAIN result.job.resource_defs = BoundKeys \cup DOMAIN JobBindings
                /\ \A i \in 1..Len(Carriers) :
                      \A k \in DOMAIN Carriers[i].resource_defs :
                          result.job.resource_defs[k] = Carriers[i].resource_defs[k]
                /\ \A k \in DOMAIN JobBindings : result.job.resource_defs[k] = JobBindings[k]

\* C9's case: the job binds r to an object different from a computation's,
\* no two computations or sources disagree, and the call was refused
C9_Witness ==
    /\ ReachedResources
    /\ ConflictWithJob
    /\ ~ConflictAmongCarriers
    /\ ~result.ok

\* the supplied definitions that declare a partition policy
Partitioned == {i \in 1..Len(supplied) : supplied[i].partitions_def # NONE}

ConflictingPolicies(i, j) ==
    /\ i \in Partitioned
    /\ j \in Partitioned
    /\ supplied[i].partitions_def # supplied[j].partitions_def

CommonPolicy ==
    IF Partitioned = {} THEN NONE
    ELSE supplied[CHOOSE i \in Partitioned : TRUE].partitions_def

\* C10: a call with two definitions of different partition policies fails
\* with a DefinitionError that names an output key of each; every other call
\* that returns a job gives it the common policy of the partitioned
\* definitions, or none when no definition has a policy.
C10_PartitionPoliciesUnified ==
    pc = "done" =>
        IF \E i, j \in 1..Len(supplied) : ConflictingPolicies(i, j)
        THEN /\ ~result.ok
             /\ result.error.type = "DagsterInvalidDefinitionError"
             /\ result.error.what = "partitions"
             /\ \E i, j \in 1..Len(supplied) :
                   /\ ConflictingPolicies(i, j)
                   /\ result.error.first_asset_key \in Keys(supplied[i])
                   /\ result.error.second_asset_key \in Keys(supplied[j])
        ELSE result.ok => result.job.partitions_def = CommonPolicy

\* the artifact-level graph and the owners the last colouring pass worked on
ColouredGraph == GenerateAssetDepGraph(supplied)

ColouredOwners == AssetsDefsByAssetName(supplied)

\* the upstream names of a name, a dependency on itself left out
UpstreamOf(name) ==
    IF name \in DOMAIN ColouredGraph.upstream
    THEN ColouredGraph.upstream[name] \ {name}
    ELSE {}

\* 1 for a step from u to a downstream v that a different definition produces,
\* 0 for a step inside one definition or out of a source
IncrementOf(u, v) ==
    IF /\ u \in DOMAIN ColouredOwners
       /\ v \in DOMAIN ColouredOwners
       /\ ColouredOwners[u].id # ColouredOwners[v].id
    THEN 1 ELSE 0

\* the most increments on a path from a root to name
RECURSIVE MostIncrements(_)
MostIncrements(name) ==
    IF UpstreamOf(name) = {} THEN 0
    ELSE Max({MostIncrements(u) + IncrementOf(u, name) : u \in UpstreamOf(name)})

\* C11: after the colouring pass every artifact's colour is the largest
\* number, over the paths from a root to it, of steps to an artifact that a
\* different definition produces; a step inside one definition and a step out
\* of a source add nothing.
C11_ColourIsMostIncrements ==
    colors # NoColors =>
        \A name \in DOMAIN ColouredGraph.downstream :
            /\ name \in DOMAIN colors
            /\ colors[name] = MostIncrements(name)

\* the declared dependencies of the supplied definitions, <<k, u>>: k is
\* computed from u
SuppliedArtifactEdges ==
    UNION {UNION {{<<k, u>> : u \in ad.asset_deps[k]} : k \in Keys(ad)} : ad \in SuppliedDefs}

SelfDependencies == {e \in SuppliedArtifactEdges : e[1] = e[2]}

\* the names of the artifact-level graph
ArtifactNames == DOMAIN GenerateAssetDepGraph(supplied).downstream

\* no colour was given and no call of _dfs was made
NoDfsStep == colors = NoColors /\ stack = <<>>

\* a recorded colour is never lowered and a coloured name stays coloured
ColoursOnlyGrow ==
    \A name \in DOMAIN colors : name \in DOMAIN colors' /\ colors'[name] >= colors[name]

ColoursBounded ==
    \A name \in DOMAIN colors : colors[name] <= Cardinality(ArtifactNames)

Returns == pc \in {"returned", "raised"}

====
